---- MODULE Spec2Model ----
(***************************************************************************)
(* Model of iss/bam.py (InSilicoSeq): the error-profile estimation from a  *)
(* BAM file.  get_mismatches is modelled as a state machine that walks the *)
(* reads of the alignment source, one loop iteration per step;             *)
(* subst_matrix_to_choices and indel_rate are operators.                   *)
(* Python floats are modelled as exact fractions [num, den]; a fraction    *)
(* with den = 0 is what numpy yields for x / 0.0 (NaN for 0/0, Inf         *)
(* otherwise).  Python lists are 1-based sequences, numpy arrays are       *)
(* functions on 0..n-1.                                                    *)
(***************************************************************************)
EXTENDS Integers, Sequences, FiniteSets, TLC

\* ---------------------------------------------------------------- bounds
\* get_mismatches: the read_length argument and the number of reads of the
\* alignment source
ReadLength == 2
MaxReads == 2
\* the same for the one-row scans of several reads
RowReadLength == 1
RowMaxReads == 3
\* the same for the scans of the mate bookkeeping
MateReadLength == 1
MateMaxReads == 1
\* get_insert_size: reads of the source, largest |template_length|
MaxIReads == 3
MaxTLen == 2
\* quality_distribution: reads of the source, longest quality array
MaxQReads == 2
MaxQLen == 2

\* ------------------------------------------------------------- constants
NCols == 24
\* np.histogram(..., bins=range(0, 41)): 40 bins with the edges 0..40
NBins == 40

Bases == {"A", "T", "C", "G"}
QueryBases == Bases \cup {"N"}
LowerBases == {"a", "t", "c", "g"}

\* str.upper / str.casefold / str.isupper on one-letter strings
upper(c) ==
  CASE c = "a" -> "A" [] c = "t" -> "T" [] c = "c" -> "C" [] c = "g" -> "G"
    [] c = "n" -> "N" [] OTHER -> c

casefold(c) ==
  CASE c = "A" -> "a" [] c = "T" -> "t" [] c = "C" -> "c" [] c = "G" -> "g"
    [] c = "N" -> "n" [] OTHER -> c

isupper(c) == c \in {"A", "T", "C", "G", "N"}

dispatch_dict ==
  ("AA" :> 0) @@ ("aT" :> 1) @@ ("aG" :> 2) @@ ("aC" :> 3) @@
  ("TT" :> 4) @@ ("tA" :> 5) @@ ("tG" :> 6) @@ ("tC" :> 7) @@
  ("CC" :> 8) @@ ("cA" :> 9) @@ ("cT" :> 10) @@ ("cG" :> 11) @@
  ("GG" :> 12) @@ ("gA" :> 13) @@ ("gT" :> 14) @@ ("gC" :> 15)

\* np.zeros([read_length, 24])
zeros(n) == [p \in 0..(n - 1) |-> [c \in 0..(NCols - 1) |-> 0]]

\* ------------------------------------------------- the alignment adapter
\* CIGAR operation codes of a BAM record: 0 match, 1 insertion,
\* 2 deletion, 4 soft clip (stands for every other operation).
CigarTypes == {0, 1, 2, 4}

\* the CIGAR strings of the mapped reads of the alignment source, as
\* (operation, length) tuples: a one-base and a two-base read without
\* indels, a deletion and an insertion between two aligned bases, a
\* trailing insertion of two bases, a trailing soft clip
CigarSet ==
  { << <<0, 1>> >>,
    << <<0, 2>> >>,
    << <<0, 1>>, <<2, 1>>, <<0, 1>> >>,
    << <<0, 1>>, <<1, 1>>, <<0, 1>> >>,
    << <<0, 1>>, <<1, 2>> >>,
    << <<0, 1>>, <<4, 1>> >> }

\* read.get_aligned_pairs(matches_only=True): the query positions of the
\* aligned pairs.  A match yields one pair per base, an insertion and a
\* soft clip consume query bases, a deletion consumes reference bases.
RECURSIVE AlignedFrom(_, _, _)
AlignedFrom(cig, k, qpos) ==
  IF k > Len(cig) THEN << >>
  ELSE LET t == cig[k][1]
           l == cig[k][2]
       IN  IF t = 0
             THEN [j \in 1..l |-> qpos + j - 1] \o AlignedFrom(cig, k + 1, qpos + l)
             ELSE IF t \in {1, 4}
                    THEN AlignedFrom(cig, k + 1, qpos + l)
                    ELSE AlignedFrom(cig, k + 1, qpos)

get_aligned_pairs(cig) == AlignedFrom(cig, 1, 0)

\* with_seq=True: the reference base of an aligned pair whose query base
\* is q (it is read only when q is not N).  The adapter writes a
\* substitution in lower case, so a lower-case reference base differs from
\* the query base; an upper-case one is any base.
RefAnnot(q) == Bases \cup {r \in LowerBases : r # casefold(q)}

NoRead ==
  [is_read1 |-> FALSE, is_read2 |-> FALSE, cigartuples |-> << >>,
   alignment |-> << >>]

\* ------------------------------------------------------ python "floats"
Div(n, d) == [num |-> n, den |-> d]

RECURSIVE SumSeq(_)
SumSeq(s) == IF s = << >> THEN 0 ELSE Head(s) + SumSeq(Tail(s))

\* mismatches_array[a:b]
Slice(arr, a, b) == [k \in 1..(b - a) |-> arr[a + k - 1]]

DivAll(s, d) == [k \in 1..Len(s) |-> Div(s[k], d)]

subst_matrix_to_choices(arr) ==
  LET sums == [A |-> SumSeq(Slice(arr, 1, 4)),
               T |-> SumSeq(Slice(arr, 5, 8)),
               C |-> SumSeq(Slice(arr, 9, 12)),
               G |-> SumSeq(Slice(arr, 13, NCols))]
  IN  [A |-> << <<"T", "C", "G">>, DivAll(Slice(arr, 1, 4), sums.A) >>,
       T |-> << <<"A", "C", "G">>, DivAll(Slice(arr, 5, 8), sums.T) >>,
       C |-> << <<"A", "T", "G">>, DivAll(Slice(arr, 9, 12), sums.C) >>,
       G |-> << <<"A", "T", "C">>, DivAll(Slice(arr, 13, NCols), sums.G) >>]

indel_rate(arr) ==
  LET sums == [A |-> SumSeq(Slice(arr, 0, 4)),
               T |-> SumSeq(Slice(arr, 6, 10)),
               C |-> SumSeq(Slice(arr, 12, 16)),
               G |-> SumSeq(Slice(arr, 18, 22))]
  IN  [A |-> << <<"1", "2">>, DivAll(Slice(arr, 4, 6), sums.A) >>,
       T |-> << <<"1", "2">>, DivAll(Slice(arr, 10, 12), sums.T) >>,
       C |-> << <<"1", "2">>, DivAll(Slice(arr, 16, 18), sums.C) >>,
       G |-> << <<"1", "2">>, DivAll(Slice(arr, 22, NCols), sums.G) >>]

\* ------------------------------------------------------------------ state
\* get_mismatches
\* read_length: the argument of get_mismatches; source_left: how many
\* reads bam.fetch() can still yield; pc: the statement the scan is at, or
\* the exception that ended it
VARIABLES read_length, source_left, array_f, array_r, pc, read, idx,
          has_indels, ref_base, position, cidx, result

\* get_insert_size.  ibam: the reads fetched so far; i_size_dist: the list
\* the comprehension builds; i_size: what the call returned or raised
VARIABLES ipc, isource_left, ibam, i_size_dist, i_size

\* quality_distribution(model = 'cdf').  qbam: the reads of the source
VARIABLES qpc, qbam, histograms_forward, histograms_reverse, weights

mvars == <<read_length, source_left, array_f, array_r, pc, read, idx,
           has_indels, ref_base, position, cidx, result>>
ivars == <<ipc, isource_left, ibam, i_size_dist, i_size>>
qvars == <<qpc, qbam, histograms_forward, histograms_reverse, weights>>
vars == <<mvars, ivars, qvars>>

NoResult == << >>

get_mismatches(rl, n) ==
  /\ read_length = rl
  /\ source_left = n
  /\ array_f = zeros(rl)
  /\ array_r = zeros(rl)
  /\ pc = "fetch"
  /\ read = NoRead
  /\ idx = 0
  /\ has_indels = FALSE
  /\ ref_base = ""
  /\ position = 0
  /\ cidx = 0
  /\ result = NoResult

\* no call of get_mismatches in progress
MIdle == get_mismatches(0, 0)

IIdle ==
  /\ ipc = "idle"
  /\ isource_left = 0
  /\ ibam = << >>
  /\ i_size_dist = << >>
  /\ i_size = [kind |-> "none"]

QIdle ==
  /\ qpc = "idle"
  /\ qbam = << >>
  /\ histograms_forward = << >>
  /\ histograms_reverse = << >>
  /\ weights = << >>

Init == get_mismatches(ReadLength, MaxReads) /\ IIdle /\ QIdle

InitRow == get_mismatches(RowReadLength, RowMaxReads) /\ IIdle /\ QIdle

InitMate == get_mismatches(MateReadLength, MateMaxReads) /\ IIdle /\ QIdle

\* the mate flags tested in the other order
MateMatrixSecondFirst(r1, r2) == IF r2 THEN "r" ELSE IF r1 THEN "f" ELSE "none"

\* the matrix a read is tallied in: the if / elif on the mate flags
MateMatrix(r1, r2) == IF r1 THEN "f" ELSE IF r2 THEN "r" ELSE "none"

\* array[row, dispatch_dict[key]] += 1 on the matrix chosen by the mate
\* flags: KeyError when the key is missing (the subscript is evaluated
\* first), IndexError when the row is out of range.
Tally(row, key, next_pc) ==
  LET m == MateMatrix(read.is_read1, read.is_read2)
  IN  IF m = "none"
        THEN /\ pc' = next_pc
             /\ UNCHANGED <<array_f, array_r>>
      ELSE IF key \notin DOMAIN dispatch_dict
        THEN /\ pc' = "KeyError"
             /\ UNCHANGED <<array_f, array_r>>
      ELSE IF row >= read_length
        THEN /\ pc' = "IndexError"
             /\ UNCHANGED <<array_f, array_r>>
      ELSE /\ pc' = next_pc
           /\ IF m = "f"
                THEN /\ array_f' = [array_f EXCEPT ![row][dispatch_dict[key]] = @ + 1]
                     /\ UNCHANGED array_r
                ELSE /\ array_r' = [array_r EXCEPT ![row][dispatch_dict[key]] = @ + 1]
                     /\ UNCHANGED array_f

\* for read in bam.fetch(): an unmapped read is passed over
FetchUnmapped ==
  /\ pc = "fetch"
  /\ source_left > 0
  /\ source_left' = source_left - 1
  /\ UNCHANGED <<read_length, array_f, array_r, pc, read, idx, has_indels,
                 ref_base, position, cidx, result, ivars, qvars>>

\* for read in bam.fetch(): a mapped read; has_indels = False
FetchMapped ==
  /\ pc = "fetch"
  /\ source_left > 0
  /\ \E r1 \in BOOLEAN, r2 \in BOOLEAN, cig \in CigarSet :
       read' = [is_read1 |-> r1, is_read2 |-> r2, cigartuples |-> cig,
                alignment |-> get_aligned_pairs(cig)]
  /\ source_left' = source_left - 1
  /\ pc' = "align"
  /\ idx' = 1
  /\ has_indels' = FALSE
  /\ ref_base' = ""
  /\ position' = 0
  /\ cidx' = 0
  /\ UNCHANGED <<read_length, array_f, array_r, result, ivars, qvars>>

\* where the read goes after the body of "for base in alignment"
AfterBase(hi) ==
  IF idx < Len(read.alignment) THEN "align"
  ELSE IF hi THEN "cigar" ELSE "fetch"

\* one iteration of "for base in alignment".  The read's locals are dead
\* once the scan is back at the top of the loop over the reads (every one
\* is assigned again before it is read), so they are reset there.
AlignStep ==
  /\ pc = "align"
  /\ \E query_base \in QueryBases :
       IF query_base = "N"
         THEN /\ pc' = AfterBase(has_indels)
              /\ has_indels' = (has_indels /\ pc' # "fetch")
              /\ ref_base' = IF pc' = "fetch" THEN "" ELSE ref_base
              /\ UNCHANGED <<array_f, array_r>>
         ELSE \E ref \in RefAnnot(query_base) :
                LET query_pos == read.alignment[idx]
                    hi == \/ has_indels
                          \/ (casefold(query_base) # casefold(ref) /\ isupper(ref))
                IN  /\ IF hi
                         THEN /\ pc' = AfterBase(hi)
                              /\ UNCHANGED <<array_f, array_r>>
                         ELSE Tally(query_pos, ref \o query_base, AfterBase(hi))
                    /\ has_indels' = (hi /\ pc' # "fetch")
                    /\ ref_base' = IF pc' = "fetch" THEN "" ELSE ref
  /\ read' = IF pc' = "fetch" THEN NoRead ELSE read
  /\ idx' = IF pc' = "fetch" THEN 0 ELSE idx + 1
  /\ position' = 0
  /\ cidx' = IF pc' = "cigar" THEN 1 ELSE 0
  /\ UNCHANGED <<read_length, source_left, result, ivars, qvars>>

\* where the read goes after the body of "for ... in read.cigartuples"
AfterOp == IF cidx < Len(read.cigartuples) THEN "cigar" ELSE "fetch"

\* one iteration of "for (cigar_type, cigar_length) in read.cigartuples"
CigarStep ==
  /\ pc = "cigar"
  /\ LET cigar_type == read.cigartuples[cidx][1]
         cigar_length == read.cigartuples[cidx][2]
         advance == IF cigar_type = 4 THEN 0 ELSE cigar_length
     IN  /\ CASE cigar_type = 0 ->
                  /\ pc' = AfterOp
                  /\ UNCHANGED <<array_f, array_r>>
             [] cigar_type = 1 ->
                  Tally(position, upper(ref_base) \o "1", AfterOp)
             [] cigar_type = 2 ->
                  Tally(position, upper(ref_base) \o "2", AfterOp)
             [] OTHER ->
                  /\ pc' = AfterOp
                  /\ UNCHANGED <<array_f, array_r>>
         /\ position' = IF pc' = "cigar" THEN position + advance
                         ELSE IF pc' = "fetch" THEN 0 ELSE position
  /\ read' = IF pc' = "fetch" THEN NoRead ELSE read
  /\ idx' = IF pc' = "fetch" THEN 0 ELSE idx
  /\ has_indels' = (has_indels /\ pc' # "fetch")
  /\ ref_base' = IF pc' = "fetch" THEN "" ELSE ref_base
  /\ cidx' = IF pc' = "fetch" THEN 0 ELSE cidx + 1
  /\ UNCHANGED <<read_length, source_left, result, ivars, qvars>>

\* the source is exhausted: for position in range(read_length): ...
\* return nucl_choices_f, nucl_choices_r, indels_f, indels_r
Build ==
  /\ pc = "fetch"
  /\ pc' = "done"
  /\ result' =
       [nucl_choices_f |-> [p \in 1..read_length |-> subst_matrix_to_choices(array_f[p - 1])],
        nucl_choices_r |-> [p \in 1..read_length |-> subst_matrix_to_choices(array_r[p - 1])],
        indels_f |-> [p \in 1..read_length |-> indel_rate(array_f[p - 1])],
        indels_r |-> [p \in 1..read_length |-> indel_rate(array_r[p - 1])]]
  /\ UNCHANGED <<read_length, source_left, array_f, array_r, read, idx,
                 has_indels, ref_base, position, cidx, ivars, qvars>>

Next == FetchUnmapped \/ FetchMapped \/ AlignStep \/ CigarStep \/ Build

Spec == Init /\ [][Next]_vars

SpecRow == InitRow /\ [][Next]_vars

SpecMate == InitMate /\ [][Next]_vars

\* --------------------------------------------------------- get_insert_size
abs(x) == IF x < 0 THEN 0 - x ELSE x

TemplateLengths == (0 - MaxTLen)..MaxTLen

\* np.mean(list): the mean of an empty list is NaN (with a warning)
np_mean(dist) ==
  IF dist = << >> THEN Div(0, 0) ELSE Div(SumSeq(dist), Len(dist))

\* a conversion that maps NaN to 0 instead of raising
py_int_nan_zero(x) ==
  IF x.den = 0 THEN [kind |-> "value", value |-> 0]
  ELSE [kind |-> "value", value |-> x.num \div x.den]

\* int(float): truncates; int(nan) raises ValueError
py_int(x) ==
  IF x.den = 0 THEN [kind |-> "ValueError"]
  ELSE [kind |-> "value", value |-> x.num \div x.den]

get_insert_size ==
  /\ ipc = "scan"
  /\ isource_left = MaxIReads
  /\ ibam = << >>
  /\ i_size_dist = << >>
  /\ i_size = [kind |-> "none"]

\* the reads the comprehension keeps
Qualifies(r) == ~r.is_unmapped /\ r.is_proper_pair

\* one read of "abs(read.template_length) for read in bam.fetch() if ..."
InsertScan ==
  /\ ipc = "scan"
  /\ isource_left > 0
  /\ \E u \in BOOLEAN, pp \in BOOLEAN, tl \in TemplateLengths :
       LET r == [is_unmapped |-> u, is_proper_pair |-> pp, template_length |-> tl]
       IN  /\ ibam' = Append(ibam, r)
           /\ i_size_dist' = IF Qualifies(r)
                                THEN Append(i_size_dist, abs(r.template_length))
                                ELSE i_size_dist
  /\ isource_left' = isource_left - 1
  /\ UNCHANGED <<ipc, i_size, mvars, qvars>>

\* the source is exhausted: i_size = np.mean(i_size_dist); return int(i_size)
InsertReturn ==
  /\ ipc = "scan"
  /\ i_size' = py_int(np_mean(i_size_dist))
  /\ ipc' = IF i_size'.kind = "value" THEN "returned" ELSE "ValueError"
  /\ UNCHANGED <<isource_left, ibam, i_size_dist, mvars, qvars>>

InitInsert == MIdle /\ get_insert_size /\ QIdle

NextInsert == InsertScan \/ InsertReturn

SpecInsert == InitInsert /\ [][NextInsert]_vars

\* ------------------------------------------- quality_distribution, 'cdf'
\* a sample of the Phred scores a BAM record can carry (0..93)
PhredScores == {0, 39, 40, 41}

RECURSIVE SeqsOfLen(_, _)
SeqsOfLen(S, n) ==
  IF n = 0 THEN {<< >>}
  ELSE {Append(q, x) : q \in SeqsOfLen(S, n - 1), x \in S}

SeqsUpTo(S, lo, hi) == UNION {SeqsOfLen(S, n) : n \in lo..hi}

QualityReads ==
  [is_unmapped : BOOLEAN, is_read1 : BOOLEAN, is_read2 : BOOLEAN,
   query_qualities : SeqsUpTo(PhredScores, 1, MaxQLen)]

\* np.array(read.query_qualities) for read in bam.fetch()
\*   if not read.is_unmapped and read.is_read1   (resp. is_read2)
array_gen(bam, mate) ==
  LET keep(r) == ~r.is_unmapped /\ (IF mate = 1 THEN r.is_read1 ELSE r.is_read2)
      kept == SelectSeq(bam, keep)
  IN  [k \in 1..Len(kept) |-> kept[k].query_qualities]

RECURSIVE MinLen(_)
MinLen(arrs) ==
  IF Len(arrs) = 1 THEN Len(arrs[1])
  ELSE LET m == MinLen(Tail(arrs))
       IN  IF Len(arrs[1]) < m THEN Len(arrs[1]) ELSE m

\* zip(*arrays): one tuple per position, up to the shortest array
zip(arrs) ==
  IF arrs = << >> THEN << >>
  ELSE [p \in 1..MinLen(arrs) |-> [k \in 1..Len(arrs) |-> arrs[k][p]]]

\* np.histogram(x, bins=range(0, 41))[0]: bin b holds b <= v < b + 1, the
\* last bin holds its right edge too; other values are not counted
np_histogram(x) ==
  [b \in 0..(NBins - 1) |->
     Cardinality({k \in 1..Len(x) :
                    \/ b <= x[k] /\ x[k] < b + 1
                    \/ b = NBins - 1 /\ x[k] = NBins})]

RECURSIVE SumTo(_, _)
SumTo(f, n) == IF n < 0 THEN 0 ELSE f[n] + SumTo(f, n - 1)

\* np.sum(values)
np_sum(values) == SumTo(values, NBins - 1)

\* weights = values / np.sum(values)
Normalize(values) ==
  [b \in 0..(NBins - 1) |-> Div(values[b], np_sum(values))]

quality_distribution ==
  /\ qpc = "forward"
  /\ qbam \in SeqsUpTo(QualityReads, 0, MaxQReads)
  /\ histograms_forward = << >>
  /\ histograms_reverse = << >>
  /\ weights = << >>

\* deal with the forward reads
HistForward ==
  /\ qpc = "forward"
  /\ histograms_forward' =
       LET cols == zip(array_gen(qbam, 1))
       IN  [p \in 1..Len(cols) |-> np_histogram(cols[p])]
  /\ qpc' = "reverse"
  /\ UNCHANGED <<qbam, histograms_reverse, weights, mvars, ivars>>

\* deal with the reverse reads
HistReverse ==
  /\ qpc = "reverse"
  /\ histograms_reverse' =
       LET cols == zip(array_gen(qbam, 2))
       IN  [p \in 1..Len(cols) |-> np_histogram(cols[p])]
  /\ qpc' = "weights"
  /\ UNCHANGED <<qbam, histograms_forward, weights, mvars, ivars>>

\* calculate weights and indices; return weights_forward, weights_reverse
Weights ==
  /\ qpc = "weights"
  /\ weights' =
       [forward |-> [p \in 1..Len(histograms_forward) |->
                       Normalize(histograms_forward[p])],
        reverse |-> [p \in 1..Len(histograms_reverse) |->
                       Normalize(histograms_reverse[p])]]
  /\ qpc' = "returned"
  /\ UNCHANGED <<qbam, histograms_forward, histograms_reverse, mvars, ivars>>

InitQual == MIdle /\ IIdle /\ quality_distribution

NextQual == HistForward \/ HistReverse \/ Weights

SpecQual == InitQual /\ [][NextQual]_vars

\* ================================================================ claims
\* the columns dispatch_dict assigns (match and substitution cells), and
\* the columns left for the indel cells
MatchCols == {dispatch_dict[k] : k \in DOMAIN dispatch_dict}
IndelCols == (0..(NCols - 1)) \ MatchCols

\* the query positions at which a CIGAR has an insertion or a deletion
RECURSIVE IndelsFrom(_, _, _)
IndelsFrom(cig, k, qpos) ==
  IF k > Len(cig) THEN {}
  ELSE LET t == cig[k][1]
           l == cig[k][2]
       IN  (IF t \in {1, 2} THEN {qpos} ELSE {})
             \cup IndelsFrom(cig, k + 1, IF t \in {0, 1, 4} THEN qpos + l ELSE qpos)

\* the scan is inside a mapped read
InRead == pc \in {"align", "cigar"}

\* C1: a mapped read whose alignment has an insertion or deletion at query
\* position p adds nothing to a match/substitution cell of either matrix
\* at a query position >= p.
C1_NoTallyAfterIndel ==
  [][pc = "align" =>
       \A p \in IndelsFrom(read.cigartuples, 1, 0) :
         \A row \in p..(read_length - 1) :
           \A col \in MatchCols :
             /\ array_f'[row][col] = array_f[row][col]
             /\ array_r'[row][col] = array_r[row][col]]_vars

\* count(R substituted by X) of a row, by the columns of dispatch_dict
SubstCount(row, R, X) ==
  IF X = R THEN 0 ELSE row[dispatch_dict[casefold(R) \o X]]

SubstDenominator(row, R) ==
  SubstCount(row, R, "A") + SubstCount(row, R, "T")
    + SubstCount(row, R, "C") + SubstCount(row, R, "G")

ChoiceIsRate(row, choices, R) ==
  LET labels == choices[R][1]
      probs == choices[R][2]
      D == SubstDenominator(row, R)
  IN  D # 0 =>
        /\ Len(labels) = 3
        /\ Len(probs) = 3
        /\ {labels[k] : k \in 1..3} = Bases \ {R}
        /\ \A k \in 1..3 :
             /\ probs[k].den # 0
             /\ probs[k].num * D = SubstCount(row, R, labels[k]) * probs[k].den

\* C2: for every row the counting pass filled and every reference base R
\* with a non-zero substitution denominator, subst_matrix_to_choices gives
\* 3 alternate bases and 3 probabilities, and the probability paired with
\* X is count(R substituted by X) / (sum of the 3 substitution counts of R).
C2_ChoicesAreSubstitutionRates ==
  pc = "done" =>
    \A p \in 0..(read_length - 1) :
      \A R \in Bases :
        /\ ChoiceIsRate(array_f[p], result.nucl_choices_f[p + 1], R)
        /\ ChoiceIsRate(array_r[p], result.nucl_choices_r[p + 1], R)

IndelRateIsProbability(rates, R) ==
  LET probs == rates[R][2]
  IN  probs[1].den # 0 =>
        /\ Len(probs) = 2
        /\ \A k \in 1..2 : 0 <= probs[k].num /\ probs[k].num <= probs[k].den
        /\ probs[1].num + probs[2].num <= probs[1].den

\* C3: for every row the counting pass filled and every reference base
\* whose indel_rate denominator is non-zero, [P(insertion), P(deletion)]
\* has both components in [0, 1] and a sum of at most 1.
C3_IndelRateAtMostOne ==
  pc = "done" =>
    \A p \in 1..read_length :
      \A R \in Bases :
        /\ IndelRateIsProbability(result.indels_f[p], R)
        /\ IndelRateIsProbability(result.indels_r[p], R)

\* C4: in the CIGAR sub-pass every insertion or deletion of a read
\* increments by exactly 1 one indel cell of the read's mate matrix, at
\* the current offset, and the pass goes on without failing.
C4_IndelCellIncremented ==
  [][(/\ pc = "cigar"
      /\ read.cigartuples[cidx][1] \in {1, 2}
      /\ (read.is_read1 \/ read.is_read2)) =>
       /\ pc' \in {"cigar", "fetch"}
       /\ position < read_length
       /\ \E col \in IndelCols :
            IF read.is_read1
              THEN /\ array_f' = [array_f EXCEPT ![position][col] = @ + 1]
                   /\ array_r' = array_r
              ELSE /\ array_r' = [array_r EXCEPT ![position][col] = @ + 1]
                   /\ array_f' = array_f]_vars

NoNanInf(rec) ==
  \A R \in Bases : \A k \in 1..Len(rec[R][2]) : rec[R][2][k].den # 0

\* C6: the per-position records get_mismatches returns never hold a NaN or
\* Inf probability: a base with a zero denominator gets a sentinel, or
\* the call fails.
C6_NoSilentNan ==
  pc = "done" =>
    \A p \in 1..read_length :
      /\ NoNanInf(result.nucl_choices_f[p])
      /\ NoNanInf(result.nucl_choices_r[p])
      /\ NoNanInf(result.indels_f[p])
      /\ NoNanInf(result.indels_r[p])

\* C7: a read with an aligned query position >= read_length is skipped
\* and the scan goes on (it does not end in an exception).
C7_OutOfRangeReadSkipped ==
  [][(pc = "align" /\ read.alignment[idx] >= read_length) =>
       /\ pc' \in {"align", "cigar", "fetch"}
       /\ array_f' = array_f
       /\ array_r' = array_r]_vars

\* every cell keeps its value or grows by 1, and stays a natural number
CellsIncrement(a, b) ==
  \/ b = a
  \/ \A p \in 0..(read_length - 1) :
       \/ b[p] = a[p]
       \/ \A c \in 0..(NCols - 1) :
            /\ b[p][c] = a[p][c] \/ b[p][c] = a[p][c] + 1
            /\ b[p][c] >= 0

MateFrame ==
  /\ CellsIncrement(array_f, array_f')
  /\ CellsIncrement(array_r, array_r')
  /\ (array_f' = array_f \/ array_r' = array_r)
  /\ (~InRead => array_f' = array_f /\ array_r' = array_r)
  /\ (InRead /\ read.is_read1 => array_r' = array_r)
  /\ (InRead /\ ~read.is_read1 /\ ~read.is_read2 =>
        array_f' = array_f /\ array_r' = array_r)

\* C10 (as stated): every step changes at most one matrix, by increments
\* of 1; a first-in-pair read changes only the forward matrix, a
\* second-in-pair read only the reverse matrix, an unmapped read or a read
\* flagged neither first nor second changes nothing.
C10_SecondOnlyReverse ==
  [][MateFrame /\ (InRead /\ read.is_read2 => array_f' = array_f)]_vars

\* C10 (amended): as above, but it is a read flagged second and not first
\* that changes only the reverse matrix; a read carrying both flags is
\* tallied as first-in-pair.
C10_MateFrame ==
  [][MateFrame /\ (InRead /\ read.is_read2 /\ ~read.is_read1 => array_f' = array_f)]_vars

\* a second-in-pair read has been tallied in the reverse matrix
C10_Witness ==
  /\ pc = "align"
  /\ read.is_read2 /\ ~read.is_read1
  /\ array_r # zeros(read_length)
  /\ array_f = zeros(read_length)

\* the |template_length| of the mapped, properly paired reads fetched
RECURSIVE QualifyingSizes(_)
QualifyingSizes(bam) ==
  IF bam = << >> THEN << >>
  ELSE LET r == bam[Len(bam)]
           rest == QualifyingSizes(SubSeq(bam, 1, Len(bam) - 1))
       IN  IF ~r.is_unmapped /\ r.is_proper_pair
             THEN Append(rest, abs(r.template_length))
             ELSE rest

\* the fraction s / n rounded to the nearest integer, halves upwards
RoundNearest(s, n) == (2 * s + n) \div (2 * n)

\* C5: for a non-empty collection of mapped, properly paired reads
\* get_insert_size returns the mean of |template_length| over exactly
\* those reads, rounded to the nearest integer (not truncated).
C5_RoundedMean ==
  ipc = "returned" =>
    LET sizes == QualifyingSizes(ibam)
    IN  /\ sizes # << >>
        /\ i_size.value = RoundNearest(SumSeq(sizes), Len(sizes))

\* C9: when no read of the source is both mapped and properly paired,
\* get_insert_size ends in an error and returns no value.
C9_EmptyIsError ==
  (/\ ipc \in {"returned", "ValueError"}
   /\ \A k \in 1..Len(ibam) : ibam[k].is_unmapped \/ ~ibam[k].is_proper_pair) =>
    /\ ipc = "ValueError"
    /\ i_size.kind = "ValueError"

\* a source with reads, none of them qualifying, has been scanned
C9_Witness ==
  /\ ipc = "ValueError"
  /\ Len(ibam) >= 2
  /\ \E k \in 1..Len(ibam) : ibam[k].is_unmapped
  /\ \E k \in 1..Len(ibam) : ~ibam[k].is_unmapped /\ ~ibam[k].is_proper_pair

IsDistribution(w) ==
  /\ \A b \in 0..(NBins - 1) : w[b].den # 0 /\ w[b].num >= 0
  /\ SumTo([b \in 0..(NBins - 1) |-> w[b].num], NBins - 1) = w[0].den

\* C8: in histogram mode, for each mate orientation and every position at
\* which a mapped read of that orientation has a quality score, the
\* weights returned for the position are non-negative and sum to 1.
C8_WeightsSumToOne ==
  qpc = "returned" =>
    \A k \in 1..Len(qbam) :
      \A p \in 1..Len(qbam[k].query_qualities) :
        /\ (~qbam[k].is_unmapped /\ qbam[k].is_read1) =>
             (p <= Len(weights.forward) /\ IsDistribution(weights.forward[p]))
        /\ (~qbam[k].is_unmapped /\ qbam[k].is_read2) =>
             (p <= Len(weights.reverse) /\ IsDistribution(weights.reverse[p]))

====
